---- MODULE Spec2Model ----
(***************************************************************************)
(* pyPredictive.py: a batch script that loads four customer tables, joins  *)
(* them, derives features, fits a scaler and a random forest, ranks the    *)
(* customers of a segment by predicted purchase probability, renders       *)
(* seven plots and writes top_customers.csv and results.xlsx.              *)
(*                                                                         *)
(* The script's module-level globals are the variables; one action per     *)
(* commented section of the script.  A library call that raises ends the   *)
(* run (pc = "raised").                                                    *)
(*                                                                         *)
(* Floats are exact rationals [n, d] (d > 0, lowest terms); d = 0 encodes  *)
(* the non-finite results of a division by zero: n = 1 is inf, n = -1 is   *)
(* -inf, n = 0 is NaN.                                                     *)
(*                                                                         *)
(* Column layout of the input files (the files are not in the repository; *)
(* the script only names the columns it reads):                           *)
(*   click_data.csv        customer_id, clicks, visits                     *)
(*   sales_data.csv        customer_id, purchases                          *)
(*   demographic_data.csv  customer_id, age, income, gender                *)
(*   segment_data.csv      customer_id                                     *)
(***************************************************************************)
EXTENDS Integers, Sequences, FiniteSets, TLC

VARIABLES
    pc,                 \* the section of the script that runs next
    fs,                 \* the four input files: name -> sequence of rows
    click_data, sales_data, demographic_data,
    segment_data,       \* line 15: the segment file; line 48: rebound to the filtered joined rows
    data,               \* the joined table, with its derived columns
    X, y,               \* data[features], data['purchased']
    scaler,             \* StandardScaler: [fits, n, mean, var]
    X_scaled,
    split,              \* [train, test]: row positions of X_scaled (X_train, X_test, y_train, y_test)
    model,              \* RandomForestClassifier: [fits, fit_rows, classes, proba]
    product_id,
    segment_customers,
    segment_features_scaled,
    top_customers,      \* Series: sequence of [index, customer_id]
    numpy_sort,         \* how this build's argsort orders equal keys
    y_pred_proba,
    clone_fits,         \* fits of clones of the model inside learning_curve
    top_products,
    segment_data_product,
    segment_features_scaled_product,
    top_customers_product,
    out,                \* files written: name -> content
    log                 \* the run's externally visible events, in order

vars == <<pc, fs, click_data, sales_data, demographic_data, segment_data, data,
          X, y, scaler, X_scaled, split, model, product_id, segment_customers,
          segment_features_scaled, top_customers, numpy_sort, y_pred_proba,
          clone_fits, top_products, segment_data_product,
          segment_features_scaled_product, top_customers_product, out, log>>

(***************************************************************************)
(* Bounds of the model.                                                    *)
(***************************************************************************)
MaxId == 2          \* customer ids 1..MaxId
MaxRows == 2        \* rows per input file in the free files
MaxDup == 4         \* sales rows of customer 1 in the bulk files
MaxProb == 2        \* predicted probabilities are the levels 0..MaxProb

(***************************************************************************)
(* Sequences.                                                              *)
(***************************************************************************)
Range(s) == {s[i] : i \in 1..Len(s)}

RECURSIVE Concat(_)
Concat(ss) == IF ss = <<>> THEN <<>> ELSE Head(ss) \o Concat(Tail(ss))

Min(a, b) == IF a < b THEN a ELSE b

\* the last k: tail(k) for head(k)
TakeLast(s, k) == SubSeq(s, Len(s) - Min(k, Len(s)) + 1, Len(s))

\* frame.head(k)
Take(s, k) == SubSeq(s, 1, Min(k, Len(s)))

Rep(r, k) == [i \in 1..k |-> r]

SeqsUpTo(S, k) == UNION {[1..m -> S] : m \in 0..k}

(***************************************************************************)
(* Floats as rationals.                                                    *)
(***************************************************************************)
Abs(a) == IF a < 0 THEN -a ELSE a

Sgn(a) == IF a > 0 THEN 1 ELSE IF a < 0 THEN -1 ELSE 0

RECURSIVE GCD(_, _)
GCD(a, b) == IF b = 0 THEN a ELSE GCD(b, a % b)

NaN == [n |-> 0, d |-> 0]

IsFinite(r) == r.d # 0

IsNaN(r) == r.d = 0 /\ r.n = 0

IsInf(r) == r.d = 0 /\ r.n # 0

Rat(a, b) ==
    LET g == GCD(Abs(a), Abs(b))
    IN  [n |-> Sgn(b) * (a \div g), d |-> Abs(b) \div g]

Float(a) == [n |-> a, d |-> 1]

RatAdd(p, q) == Rat(p.n * q.d + q.n * p.d, p.d * q.d)

RatSub(p, q) == Rat(p.n * q.d - q.n * p.d, p.d * q.d)

RatMul(p, q) == Rat(p.n * q.n, p.d * q.d)

RatDivInt(p, k) == Rat(p.n, p.d * k)

(***************************************************************************)
(* pandas: division of integer columns, merge, boolean selection.          *)
(***************************************************************************)
\* a / b on integer columns: float division; a zero divisor gives inf, -inf or NaN
TrueDiv(a, b) == IF b = 0 THEN [n |-> Sgn(a), d |-> 0] ELSE Rat(a, b)

\* the rows l + r for the rows r of right with l's customer_id, in right's order
MatchRows(l, right) ==
    LET Same(r) == r.customer_id = l.customer_id
        m == SelectSeq(right, Same)
    IN  [j \in 1..Len(m) |-> l @@ m[j]]

\* pd.merge(left, right, on='customer_id'): inner join, in the order of left's keys
Merge(left, right) == Concat([i \in 1..Len(left) |-> MatchRows(left[i], right)])

\* the RangeIndex 0..n-1 of a merge's result
WithIndex(rows) == [i \in 1..Len(rows) |-> rows[i] @@ [index |-> i - 1]]

\* Purchased with >= for >
PurchasedOrZero(purchases) == IF purchases >= 0 THEN 1 ELSE 0

\* (data['purchases'] > 0).astype(int)
Purchased(purchases) == IF purchases > 0 THEN 1 ELSE 0

ClickRate(r) == TrueDiv(r.clicks, r.visits)

PurchaseFrequency(r) == TrueDiv(r.purchases, r.visits)

FeatureEngineering(rows) ==
    [i \in 1..Len(rows) |->
        rows[i] @@ [click_rate |-> ClickRate(rows[i]),
                    purchase_frequency |-> PurchaseFrequency(rows[i]),
                    purchased |-> Purchased(rows[i].purchases)]]

features == <<"click_rate", "purchase_frequency", "age", "income", "gender">>

IntColumns == {"age", "income", "gender"}

\* frame[features]: the feature columns, as floats
Project(rows) ==
    [i \in 1..Len(rows) |->
        [f \in Range(features) |->
            IF f \in IntColumns THEN Float(rows[i][f]) ELSE rows[i][f]]]

\* Series.unique(): the distinct values, in order of first appearance
RECURSIVE Unique(_)
Unique(s) ==
    IF s = <<>> THEN <<>>
    ELSE LET NotHead(v) == v # Head(s)
         IN  <<Head(s)>> \o Unique(SelectSeq(Tail(s), NotHead))

Column(rows, c) == [i \in 1..Len(rows) |-> rows[i][c]]

\* data[data['customer_id'].isin(ids)]
IsIn(rows, ids) ==
    LET Member(r) == r.customer_id \in Range(ids)
    IN  SelectSeq(rows, Member)

HasNaN(rows) == \E i \in 1..Len(rows) : \E f \in DOMAIN rows[i] : IsNaN(rows[i][f])

HasInf(rows) == \E i \in 1..Len(rows) : \E f \in DOMAIN rows[i] : IsInf(rows[i][f])

(***************************************************************************)
(* StandardScaler.  NaN is a missing value: left out of the statistics,    *)
(* kept by transform.  A standardized value z = (x - mean) / sqrt(var) is  *)
(* kept as the rational sign(z) * z^2, which determines z.                 *)
(***************************************************************************)
RECURSIVE RatSum(_)
RatSum(s) == IF s = <<>> THEN Float(0) ELSE RatAdd(Head(s), RatSum(Tail(s)))

ColumnStats(col) ==
    LET vals == SelectSeq(col, IsFinite)
        k == Len(vals)
        mean == RatDivInt(RatSum(vals), k)
        sq == [i \in 1..k |-> RatMul(vals[i], vals[i])]
    IN  IF k = 0 THEN [mean |-> NaN, var |-> NaN]
        ELSE [mean |-> mean,
              var |-> RatSub(RatDivInt(RatSum(sq), k), RatMul(mean, mean))]

\* the fitted parameters of scaler.fit(rows)
FitStats(rows) ==
    [n |-> Len(rows),
     mean |-> [f \in Range(features) |-> ColumnStats(Column(rows, f)).mean],
     var |-> [f \in Range(features) |-> ColumnStats(Column(rows, f)).var]]

Standardize(x, mean, var) ==
    IF ~IsFinite(x) \/ ~IsFinite(mean) THEN NaN
    ELSE LET dev == RatSub(x, mean)
             sq == RatMul(dev, dev)
             \* a zero scale is replaced by 1
             z2 == IF var.n = 0 THEN sq ELSE Rat(sq.n * var.d, sq.d * var.n)
         IN  [n |-> Sgn(dev.n) * z2.n, d |-> z2.d]

TransformRows(sc, rows) ==
    [i \in 1..Len(rows) |->
        [f \in Range(features) |-> Standardize(rows[i][f], sc.mean[f], sc.var[f])]]

Unfitted == [fits |-> 0, n |-> 0, mean |-> <<>>, var |-> <<>>]

\* scaler.fit_transform(rows): the scaler after the call and the array returned
FitTransform(sc, rows) ==
    LET fitted == [fits |-> sc.fits + 1] @@ FitStats(rows)
    IN  [self |-> fitted, result |-> TransformRows(fitted, rows)]

\* Transform that refits: fit_transform where transform is meant
TransformRefits(sc, rows) == FitTransform(sc, rows)

\* scaler.transform(rows): the scaler is only read
Transform(sc, rows) == [self |-> sc, result |-> TransformRows(sc, rows)]

(***************************************************************************)
(* train_test_split(X_scaled, y, test_size=0.25, random_state=42).         *)
(* ShuffleSplit takes numpy.random.RandomState(42).permutation(n): the     *)
(* first n_test positions are the test rows, the rest the train rows.      *)
(* Permutation42[n] is that permutation (MT19937 seeded with 42, numpy's   *)
(* shuffle), as 1-based positions.                                         *)
(***************************************************************************)
Permutation42 == <<
    <<1>>,
    <<2, 1>>,
    <<1, 2, 3>>,
    <<2, 4, 1, 3>>,
    <<2, 5, 3, 1, 4>>,
    <<1, 2, 6, 3, 5, 4>>,
    <<1, 2, 6, 3, 5, 4, 7>>,
    <<2, 6, 1, 8, 3, 5, 4, 7>>,
    <<8, 2, 6, 1, 9, 3, 5, 4, 7>>,
    <<9, 2, 6, 1, 8, 3, 10, 5, 4, 7>>,
    <<6, 1, 10, 11, 3, 2, 9, 5, 8, 4, 7>>,
    <<11, 10, 1, 9, 6, 3, 2, 12, 5, 8, 4, 7>>,
    <<12, 10, 1, 9, 6, 3, 2, 13, 5, 8, 11, 4, 7>>,
    <<10, 12, 1, 13, 6, 9, 3, 2, 14, 5, 8, 11, 4, 7>>,
    <<10, 12, 1, 14, 6, 9, 3, 2, 15, 5, 8, 11, 13, 4, 7>>,
    <<1, 2, 6, 15, 14, 12, 9, 10, 3, 16, 5, 8, 11, 13, 4, 7>>,
    <<1, 2, 6, 16, 12, 15, 9, 14, 3, 10, 17, 5, 8, 11, 13, 4, 7>>,
    <<1, 2, 9, 6, 4, 14, 17, 16, 12, 3, 10, 18, 5, 13, 8, 11, 15, 7>>,
    <<1, 6, 12, 2, 9, 17, 4, 14, 16, 18, 3, 10, 19, 5, 13, 8, 11, 15, 7>>,
    <<1, 18, 16, 2, 9, 6, 12, 4, 19, 17, 14, 3, 10, 20, 5, 13, 8, 11, 15, 7>>,
    <<1, 18, 16, 2, 9, 6, 12, 4, 19, 17, 14, 3, 10, 21, 5, 13, 8, 11, 15, 20, 7>>,
    <<1, 14, 9, 2, 16, 6, 21, 12, 4, 5, 18, 13, 19, 17, 3, 10, 22, 8, 11, 15, 20, 7>>,
    <<16, 10, 1, 9, 18, 13, 2, 14, 6, 3, 12, 21, 4, 5, 19, 17, 22, 23, 8, 11, 15, 20, 7>>,
    <<9, 17, 1, 19, 12, 10, 14, 2, 22, 6, 3, 13, 16, 4, 5, 23, 18, 21, 24, 8, 11, 15, 20, 7>>,
    <<9, 17, 1, 24, 12, 10, 14, 2, 23, 6, 3, 13, 16, 4, 5, 21, 18, 22, 19, 25, 8, 11, 15, 20, 7>>,
    <<9, 17, 1, 25, 12, 10, 14, 2, 24, 6, 3, 13, 16, 4, 5, 22, 18, 23, 19, 26, 21, 8, 11, 15, 20, 7>>,
    <<9, 14, 10, 22, 1, 12, 17, 18, 13, 25, 2, 5, 6, 3, 16, 23, 4, 26, 24, 19, 27, 21, 8, 11, 15, 20, 7>>,
    <<10, 26, 9, 22, 1, 13, 18, 23, 12, 14, 16, 2, 5, 6, 3, 17, 24, 4, 27, 25, 19, 28, 21, 8, 11, 15, 20, 7>>,
    <<28, 17, 13, 23, 9, 10, 22, 1, 27, 14, 16, 12, 18, 2, 5, 6, 3, 25, 4, 24, 26, 19, 29, 21, 8, 11, 15, 20, 7>>,
    <<28, 16, 24, 18, 9, 10, 29, 25, 13, 1, 5, 17, 6, 14, 12, 23, 2, 3, 26, 4, 22, 27, 19, 30, 21, 8, 11, 15, 20, 7>>,
    <<28, 16, 24, 18, 9, 10, 30, 25, 13, 1, 5, 17, 6, 14, 12, 23, 2, 3, 26, 4, 22, 27, 19, 31, 21, 8, 11, 15, 29, 20, 7>>,
    <<30, 16, 25, 18, 9, 10, 31, 26, 13, 1, 5, 17, 6, 14, 12, 24, 2, 3, 27, 4, 22, 28, 23, 19, 32, 21, 8, 11, 15, 29, 20, 7>>,
    <<32, 16, 27, 18, 9, 10, 20, 22, 13, 1, 5, 17, 6, 14, 12, 25, 2, 3, 30, 4, 28, 24, 31, 23, 19, 26, 7, 21, 33, 8, 11, 15, 29>>,
    <<16, 20, 28, 27, 9, 25, 22, 13, 33, 10, 1, 5, 17, 18, 6, 14, 12, 2, 3, 31, 4, 30, 24, 32, 23, 19, 26, 7, 21, 34, 8, 11, 15, 29>>,
    <<27, 14, 25, 22, 16, 30, 20, 13, 9, 17, 10, 34, 1, 5, 18, 28, 6, 12, 2, 3, 33, 4, 31, 24, 32, 11, 23, 19, 26, 7, 21, 35, 8, 15, 29>>,
    <<36, 14, 27, 31, 17, 32, 22, 13, 9, 18, 10, 35, 1, 5, 30, 16, 20, 6, 12, 2, 25, 3, 34, 4, 33, 24, 28, 11, 23, 19, 26, 7, 21, 8, 15, 29>>,
    <<18, 14, 5, 30, 36, 26, 7, 27, 25, 17, 9, 16, 13, 33, 10, 20, 1, 32, 6, 12, 2, 28, 22, 3, 37, 35, 4, 34, 24, 31, 11, 23, 19, 21, 8, 15, 29>>,
    <<34, 37, 5, 14, 31, 27, 7, 28, 25, 16, 18, 9, 17, 13, 20, 10, 33, 1, 26, 6, 12, 2, 38, 22, 3, 30, 36, 4, 35, 24, 32, 11, 23, 19, 21, 8, 15, 29>>,
    <<34, 37, 5, 14, 31, 27, 7, 28, 25, 16, 18, 9, 17, 13, 20, 10, 33, 1, 26, 6, 12, 2, 38, 22, 3, 30, 36, 4, 35, 24, 32, 11, 23, 19, 21, 8, 15, 29, 39>>,
    <<20, 17, 16, 27, 5, 13, 38, 28, 40, 7, 26, 10, 14, 32, 35, 9, 18, 25, 1, 34, 6, 12, 2, 30, 22, 3, 31, 37, 4, 36, 24, 33, 11, 23, 19, 21, 8, 15, 29, 39>>
>>

\* NTest rounding down
NTestFloor(n) == n \div 4

\* ceil(0.25 * n)
NTest(n) == (n + 3) \div 4

TrainTestSplit(n) ==
    LET p == Permutation42[n]
    IN  [test |-> SubSeq(p, 1, NTest(n)), train |-> SubSeq(p, NTest(n) + 1, n)]

(***************************************************************************)
(* RandomForestClassifier.  A fitted forest is a function of the feature   *)
(* vector; which function is the forest's business, so fit picks any       *)
(* assignment of probability levels 0..MaxProb (0.0 .. 1.0 of class 1) to  *)
(* the vectors of this run.  A forest fitted on one class predicts that    *)
(* class with probability 1 and its predict_proba has a single column.     *)
(***************************************************************************)
NoModel == [fits |-> 0, fit_rows |-> <<>>, classes |-> {}, proba |-> <<>>]

\* the rows model.fit is given: X_train, y_train
FitRows(sp) == sp.train

Forests(vectors, classes) ==
    IF Cardinality(classes) = 1
    THEN {[v \in vectors |-> IF classes = {1} THEN MaxProb ELSE 0]}
    ELSE [vectors -> 0..MaxProb]

\* model.predict_proba(rows)[:, 1]
PredictProba(m, rows) ==
    [i \in 1..Len(rows) |-> IF rows[i] \in DOMAIN m.proba THEN m.proba[rows[i]] ELSE 0]

(***************************************************************************)
(* sort_values(by='purchase_probability', ascending=False).  The default   *)
(* sort is not stable: rows with equal keys come out in an order the       *)
(* numpy build fixes.  Two builds are modelled: equal keys keep their      *)
(* order ("stable") or come out reversed ("reversed").                     *)
(***************************************************************************)
SortKinds == {"stable", "reversed"}

\* InsertDesc for ascending=True
InsertAsc(sorted, r, kind) ==
    LET Before(s) == \/ s.purchase_probability < r.purchase_probability
                     \/ /\ kind = "stable"
                        /\ s.purchase_probability = r.purchase_probability
        k == Len(SelectSeq(sorted, Before))
    IN  SubSeq(sorted, 1, k) \o <<r>> \o SubSeq(sorted, k + 1, Len(sorted))

\* r goes after the rows that sort before it
InsertDesc(sorted, r, kind) ==
    LET Before(s) == \/ s.purchase_probability > r.purchase_probability
                     \/ /\ kind = "stable"
                        /\ s.purchase_probability = r.purchase_probability
        k == Len(SelectSeq(sorted, Before))
    IN  SubSeq(sorted, 1, k) \o <<r>> \o SubSeq(sorted, k + 1, Len(sorted))

RECURSIVE SortInto(_, _, _)
SortInto(sorted, rows, kind) ==
    IF rows = <<>> THEN sorted
    ELSE SortInto(InsertDesc(sorted, Head(rows), kind), Tail(rows), kind)

SortValues(rows, kind) == SortInto(<<>>, rows, kind)

\* frame.sort_values(...).head(k)['customer_id']: a Series, the index kept
TopIds(rows, kind, k) ==
    LET top == Take(SortValues(rows, kind), k)
    IN  [i \in 1..Len(top) |-> [index |-> top[i].index, customer_id |-> top[i].customer_id]]

WithProba(rows, proba) ==
    [i \in 1..Len(rows) |-> rows[i] @@ [purchase_probability |-> proba[i]]]

\* head(10), line 56
TopN == 10

\* head(3), line 164
TopPerProduct == 3

\* cv=5, line 121
CvFolds == 5

product_ids == <<"12345", "67890", "54321">>

(***************************************************************************)
(* The input files.                                                        *)
(***************************************************************************)
Ids == 1..MaxId

ClickRow(i, c, v) == [customer_id |-> i, clicks |-> c, visits |-> v]

SalesRow(i, p) == [customer_id |-> i, purchases |-> p]

DemographicRow(i, a) == [customer_id |-> i, age |-> a, income |-> 1, gender |-> i % 2]

SegmentRow(i) == [customer_id |-> i]

\* the customers of a set, highest id first
RECURSIVE Descending(_)
Descending(Q) ==
    IF Q = {} THEN <<>>
    ELSE LET m == CHOOSE i \in Q : \A j \in Q : j <= i
         IN  <<m>> \o Descending(Q \ {m})

\* A segment file lists a set of customers and names the first of them twice.
SegmentFiles ==
    {LET s == Descending(Q) \o (IF Q = {} THEN <<>> ELSE <<Head(Descending(Q))>>)
     IN  [k \in 1..Len(s) |-> SegmentRow(s[k])] : Q \in SUBSET Ids}

\* Files of any rows about customers 1 and 2, at most MaxRows each.
FreeFiles ==
    [click : SeqsUpTo({ClickRow(i, cv[1], cv[2]) : i \in {1, 2}, cv \in {<<1, 2>>, <<0, 0>>}},
                      MaxRows),
     sales : SeqsUpTo({SalesRow(i, p) : i \in {1, 2}, p \in {0, 2}}, MaxRows),
     demographic : SeqsUpTo({DemographicRow(i, 30) : i \in {1, 2}}, MaxRows),
     segment : {<<SegmentRow(1)>>}]

\* Files in which customer 1 has several rows and the others at most one.
Blocks(row, c) == Concat([i \in 1..MaxId |-> Rep(row[i], c[i])])

\* customer 1 has one or three click rows; every other customer has one
BulkClick ==
    {Blocks([i \in Ids |-> IF i = 1 THEN ClickRow(1, 1, 2) ELSE ClickRow(i, cv[1], cv[2])],
            [i \in Ids |-> IF i = 1 THEN c ELSE 1]) :
        cv \in {<<2, 2>>, <<0, 0>>, <<1, 0>>}, c \in {1, 3}}

\* customer 1 has up to MaxDup sales rows and every other customer one; customers
\* alternate between buyers and others
BulkSales ==
    {Blocks([i \in Ids |-> SalesRow(i, i % 2)], [i \in Ids |-> IF i = 1 THEN c ELSE 1]) :
        c \in 0..MaxDup}

\* every customer, or every customer but the last, has a demographic row
BulkDemographic ==
    {[i \in 1..k |-> DemographicRow(i, 30)] : k \in {MaxId - 1, MaxId}}

BulkFiles ==
    [click : BulkClick, sales : BulkSales, demographic : BulkDemographic,
     segment : SegmentFiles]

(***************************************************************************)
(* The state before line 12.                                               *)
(***************************************************************************)
Blank ==
    /\ pc = "load"
    /\ click_data = <<>> /\ sales_data = <<>> /\ demographic_data = <<>>
    /\ segment_data = <<>>
    /\ data = <<>>
    /\ X = <<>> /\ y = <<>>
    /\ scaler = Unfitted
    /\ X_scaled = <<>>
    /\ split = [train |-> <<>>, test |-> <<>>]
    /\ model = NoModel
    /\ product_id = ""
    /\ segment_customers = <<>>
    /\ segment_features_scaled = <<>>
    /\ top_customers = <<>>
    /\ numpy_sort = "unset"
    /\ y_pred_proba = <<>>
    /\ clone_fits = 0
    /\ top_products = <<>>
    /\ segment_data_product = <<>>
    /\ segment_features_scaled_product = <<>>
    /\ top_customers_product = <<>>
    /\ out = <<>>
    /\ log = <<>>

Init == fs \in BulkFiles /\ Blank

InitPrep == fs \in FreeFiles /\ Blank

(***************************************************************************)
(* The script, section by section.                                         *)
(***************************************************************************)
\* Script with the first two plots in the other order
ScriptSwapped ==
    <<"load", "merge", "features", "prepare", "scale", "split", "fit", "dump",
      "select", "score", "rank", "save", "predict",
      "plot_roc_curve", "plot_confusion_matrix", "plot_precision_recall_curve",
      "plot_feature_importance", "plot_feature_histograms",
      "plot_correlation_matrix", "plot_learning_curve",
      "loop_init", "loop", "export", "done">>

\* the sections of the script, top to bottom
Script ==
    <<"load", "merge", "features", "prepare", "scale", "split", "fit", "dump",
      "select", "score", "rank", "save", "predict",
      "plot_confusion_matrix", "plot_roc_curve", "plot_precision_recall_curve",
      "plot_feature_importance", "plot_feature_histograms",
      "plot_correlation_matrix", "plot_learning_curve",
      "loop_init", "loop", "export", "done">>

\* the section after section p
After(p) == Script[(CHOOSE k \in 1..Len(Script) : Script[k] = p) + 1]

\* section p runs and control passes to section q
Goes(p, q) == pc = p /\ pc' = q /\ log' = Append(log, p)

Runs(p) == Goes(p, After(p))

inputs == <<fs>>
tables == <<click_data, sales_data, demographic_data>>
joined == <<data, X, y>>
scaled == <<scaler, X_scaled>>
fitted == <<split, model>>
segment == <<product_id, segment_customers, segment_data, segment_features_scaled>>
ranked == <<top_customers, numpy_sort>>
plotted == <<y_pred_proba, clone_fits>>
looped == <<top_products, segment_data_product, segment_features_scaled_product,
            top_customers_product>>

\* lines 12-15
Load ==
    /\ Runs("load")
    /\ click_data' = fs.click
    /\ sales_data' = fs.sales
    /\ demographic_data' = fs.demographic
    /\ segment_data' = fs.segment
    /\ UNCHANGED <<inputs, joined, scaled, fitted, product_id, segment_customers,
                   segment_features_scaled, ranked, plotted, looped, out>>

\* lines 18-19
MergeTables ==
    /\ Runs("merge")
    /\ data' = WithIndex(Merge(Merge(click_data, sales_data), demographic_data))
    /\ UNCHANGED <<inputs, tables, X, y, scaled, fitted, segment, ranked, plotted,
                   looped, out>>

\* lines 22-24
Features ==
    /\ Runs("features")
    /\ data' = FeatureEngineering(data)
    /\ UNCHANGED <<inputs, tables, X, y, scaled, fitted, segment, ranked, plotted,
                   looped, out>>

\* lines 27-29
Prepare ==
    /\ Runs("prepare")
    /\ X' = Project(data)
    /\ y' = Column(data, "purchased")
    /\ UNCHANGED <<inputs, tables, data, scaled, fitted, segment, ranked, plotted,
                   looped, out>>

(***************************************************************************)
(* What the library calls of a section refuse.  MustRaise: the call raises *)
(* on every scikit-learn.  MayRaise: the array holds NaN, which a forest   *)
(* of an older scikit-learn refuses and a newer one takes as missing.      *)
(***************************************************************************)
Rows(a, positions) == [k \in 1..Len(positions) |-> a[positions[k]]]

\* LoopFrame without the selection: every joined row is scored
LoopFrameAll == data

\* the frame the loop body scores: lines 154-155
LoopFrame == IsIn(data, Unique(Column(segment_data, "customer_id")))

ClassCount(c) == Cardinality({i \in 1..Len(y) : y[i] = c})

MustRaise ==
    \/ pc = "scale" /\ (Len(X) = 0 \/ HasInf(X))                  \* ValueError: 0 samples, infinity
    \/ pc = "split" /\ Len(X_scaled) - NTest(Len(X_scaled)) = 0   \* ValueError: empty train set
    \/ pc = "score" /\ (Len(segment_data) = 0                     \* ValueError: 0 samples
                        \/ Cardinality(model.classes) < 2)        \* IndexError: [:, 1]
    \/ pc = "predict" /\ Cardinality(model.classes) < 2
    \/ pc = "plot_learning_curve"                                 \* ValueError: n_splits=5
         /\ (Len(X_scaled) < CvFolds \/ \A c \in Range(y) : ClassCount(c) < CvFolds)
    \/ pc = "loop" /\ (Len(LoopFrame) = 0 \/ Cardinality(model.classes) < 2)

MayRaise ==
    \/ pc = "fit" /\ HasNaN(Rows(X_scaled, FitRows(split)))
    \/ pc = "score" /\ HasNaN(Project(segment_data))
    \/ pc = "predict" /\ HasNaN(Rows(X_scaled, split.test))
    \/ pc = "plot_learning_curve" /\ HasNaN(X_scaled)
    \/ pc = "loop" /\ HasNaN(Project(LoopFrame))

\* an exception ends the run
Raise ==
    /\ MustRaise \/ MayRaise
    /\ pc' = "raised"
    /\ UNCHANGED <<inputs, tables, joined, scaled, fitted, segment, ranked, plotted,
                   looped, out, log>>

\* lines 32-33
Scale ==
    /\ Runs("scale")
    /\ ~MustRaise
    /\ scaler' = FitTransform(scaler, X).self
    /\ X_scaled' = FitTransform(scaler, X).result
    /\ UNCHANGED <<inputs, tables, joined, fitted, segment, ranked, plotted, looped, out>>

\* line 36
Split ==
    /\ Runs("split")
    /\ ~MustRaise
    /\ split' = TrainTestSplit(Len(X_scaled))
    /\ UNCHANGED <<inputs, tables, joined, scaled, model, segment, ranked, plotted,
                   looped, out>>

\* lines 39-40
Fit ==
    /\ Runs("fit")
    /\ LET classes == {y[i] : i \in Range(FitRows(split))}
       IN  \E f \in Forests(Range(X_scaled), classes) :
               model' = [fits |-> model.fits + 1, fit_rows |-> FitRows(split),
                         classes |-> classes, proba |-> f]
    /\ UNCHANGED <<inputs, tables, joined, scaled, split, segment, ranked, plotted,
                   looped, out>>

\* line 43
Dump ==
    /\ Runs("dump")
    /\ out' = Append(out, [name |-> "trained_model.pkl", content |-> model])
    /\ UNCHANGED <<inputs, tables, joined, scaled, fitted, segment, ranked, plotted,
                   looped>>

\* lines 46-48
Select ==
    /\ Runs("select")
    /\ product_id' = "67890"
    /\ segment_customers' = Unique(Column(segment_data, "customer_id"))
    /\ segment_data' = IsIn(data, segment_customers')
    /\ UNCHANGED <<inputs, tables, joined, scaled, fitted, segment_features_scaled,
                   ranked, plotted, looped, out>>

\* lines 51-55
Score ==
    /\ Runs("score")
    /\ ~MustRaise
    /\ LET t == Transform(scaler, Project(segment_data))
       IN  /\ scaler' = t.self
           /\ segment_features_scaled' = t.result
           /\ segment_data' = WithProba(segment_data, PredictProba(model, t.result))
    /\ UNCHANGED <<inputs, tables, joined, X_scaled, fitted, product_id,
                   segment_customers, ranked, plotted, looped, out>>

\* lines 56-57
Rank ==
    /\ Runs("rank")
    /\ numpy_sort' \in SortKinds
    /\ top_customers' = TopIds(segment_data, numpy_sort', TopN)
    /\ UNCHANGED <<inputs, tables, joined, scaled, fitted, segment, plotted, looped, out>>

\* line 60: to_csv(index=False) writes the values without the index
Save ==
    /\ Runs("save")
    /\ out' = Append(out, [name |-> "top_customers.csv",
                           content |-> Column(top_customers, "customer_id")])
    /\ UNCHANGED <<inputs, tables, joined, scaled, fitted, segment, ranked, plotted,
                   looped>>

\* lines 136-137
Predict ==
    /\ Runs("predict")
    /\ ~MustRaise
    /\ y_pred_proba' = PredictProba(model, Rows(X_scaled, split.test))
    /\ UNCHANGED <<inputs, tables, joined, scaled, fitted, segment, ranked, clone_fits,
                   looped, out>>

\* a plotting function that only reads its arguments and shows a figure
Plot(p) ==
    /\ Runs(p)
    /\ UNCHANGED <<inputs, tables, joined, scaled, fitted, segment, ranked, plotted,
                   looped, out>>

\* line 138
PlotConfusionMatrix == Plot("plot_confusion_matrix")

\* line 139
PlotRocCurve == Plot("plot_roc_curve")

\* line 140
PlotPrecisionRecallCurve == Plot("plot_precision_recall_curve")

\* line 141
PlotFeatureImportance == Plot("plot_feature_importance")

\* line 144
PlotFeatureHistograms == Plot("plot_feature_histograms")

\* line 145
PlotCorrelationMatrix == Plot("plot_correlation_matrix")

\* LearningCurveEstimator without the clone: the estimator itself is refitted
LearningCurveRefits(m) == [m EXCEPT !.fits = @ + 1]

\* what learning_curve(model, ...) leaves of the estimator it is given: it fits
\* clones, one per fold and training size, and the estimator itself is untouched
LearningCurveEstimator(m) == m

\* line 146
PlotLearningCurve ==
    /\ Runs("plot_learning_curve")
    /\ ~MustRaise
    /\ model' = LearningCurveEstimator(model)
    /\ clone_fits' = clone_fits + CvFolds
    /\ UNCHANGED <<inputs, tables, joined, scaled, split, segment, ranked, y_pred_proba,
                   looped, out>>

\* lines 149-151
LoopInit ==
    /\ Runs("loop_init")
    /\ top_products' = <<>>
    /\ UNCHANGED <<inputs, tables, joined, scaled, fitted, segment, ranked, plotted,
                   segment_data_product, segment_features_scaled_product,
                   top_customers_product, out>>

\* lines 153-169: one iteration
Loop ==
    /\ Goes("loop", "loop")
    /\ Len(top_products) < Len(product_ids)
    /\ ~MustRaise
    /\ product_id' = product_ids[Len(top_products) + 1]
    /\ segment_customers' = Unique(Column(segment_data, "customer_id"))
    /\ LET frame == LoopFrame
           t == Transform(scaler, Project(frame))
       IN  /\ scaler' = t.self
           /\ segment_features_scaled_product' = t.result
           /\ segment_data_product' = WithProba(frame, PredictProba(model, t.result))
    /\ top_customers_product' = TopIds(segment_data_product', numpy_sort, TopPerProduct)
    /\ top_products' = Append(top_products,
                              [product_id |-> product_id',
                               top_customers |-> Column(top_customers_product', "customer_id")])
    /\ UNCHANGED <<inputs, tables, joined, X_scaled, fitted, segment_data,
                   segment_features_scaled, ranked, plotted, out>>

\* the loop is exhausted; lines 172-173
Export ==
    /\ pc = "loop" /\ Len(top_products) = Len(product_ids)
    /\ pc' = "done"
    /\ log' = Append(log, "export")
    /\ out' = Append(out, [name |-> "results.xlsx", content |-> top_products])
    /\ UNCHANGED <<inputs, tables, joined, scaled, fitted, segment, ranked, plotted,
                   looped>>

Next ==
    \/ Load \/ MergeTables \/ Features \/ Prepare \/ Scale \/ Split \/ Fit \/ Dump
    \/ Select \/ Score \/ Rank \/ Save \/ Predict
    \/ PlotConfusionMatrix \/ PlotRocCurve \/ PlotPrecisionRecallCurve
    \/ PlotFeatureImportance \/ PlotFeatureHistograms \/ PlotCorrelationMatrix
    \/ PlotLearningCurve \/ LoopInit \/ Loop \/ Export \/ Raise

Spec == Init /\ [][Next]_vars

\* the sections up to the feature table, on files of any rows
NextPrep == Load \/ MergeTables \/ Features \/ Prepare

SpecPrep == InitPrep /\ [][NextPrep]_vars

(***************************************************************************)
(* Claims.                                                                 *)
(***************************************************************************)
Ran(p) == p \in Range(log)

Count(rows, i) == Cardinality({k \in 1..Len(rows) : rows[k].customer_id = i})

\* C4 as stated: for all input tables the joined table has exactly one row per
\* customer: a customer_id is in data iff it is in all three tables, and no
\* customer_id is in more than one row of data.
C4_OneRowPerCustomer ==
    Ran("merge") =>
        \A i \in Ids :
            /\ Count(data, i) > 0 <=>
                   (Count(click_data, i) > 0 /\ Count(sales_data, i) > 0
                    /\ Count(demographic_data, i) > 0)
            /\ Count(data, i) <= 1

C4_Witness ==
    /\ Ran("merge")
    /\ \E i \in Ids : Count(click_data, i) = 2 /\ Count(sales_data, i) = 2 /\ Count(data, i) = 4
    /\ \E i \in Ids : Count(click_data, i) = 0 /\ Count(demographic_data, i) > 0

\* q is the float a / b
IsQuotient(q, a, b) ==
    IF b = 0 THEN ~IsFinite(q)
    ELSE q.d > 0 /\ q.n * b = a * q.d

\* C8: for every row of the joined table, purchased is 0 or 1 and is 1 exactly
\* when purchases > 0; click_rate is clicks / visits and purchase_frequency is
\* purchases / visits of the same row (a float division: a zero visits gives a
\* non-finite value).
C8_LabelAndRatios ==
    Ran("features") =>
        \A k \in 1..Len(data) :
            LET r == data[k]
            IN  /\ r.purchased \in {0, 1}
                /\ r.purchased = 1 <=> r.purchases > 0
                /\ IsQuotient(r.click_rate, r.clicks, r.visits)
                /\ IsQuotient(r.purchase_frequency, r.purchases, r.visits)

C8_Witness ==
    /\ Ran("features")
    /\ \E k \in 1..Len(data) : data[k].purchases = 0 /\ data[k].purchased = 0
    /\ \E k \in 1..Len(data) :
           /\ data[k].purchases = 2 /\ data[k].purchased = 1
           /\ data[k].click_rate = [n |-> 1, d |-> 2]
           /\ data[k].purchase_frequency = [n |-> 1, d |-> 1]

\* C6: the splitter partitions the rows of the joined table: every row is in
\* exactly one of train and test, the test subset holds 25% of the rows rounded
\* up, and the partition is the one the seed 42 fixes for that number of rows
\* (the first rows of RandomState(42)'s permutation are the test rows).
C6_SplitIsSeededPartition ==
    Ran("split") =>
        LET n == Len(data)
            both == split.test \o split.train
        IN  /\ Range(both) = 1..n
            /\ Len(both) = n
            /\ Range(split.test) \cap Range(split.train) = {}
            /\ 4 * Len(split.test) >= n
            /\ 4 * (Len(split.test) - 1) < n
            /\ both = Permutation42[n]

C6_Witness ==
    /\ Ran("split")
    /\ Len(data) = 13
    /\ Len(split.test) = 4
    /\ Len(split.train) = 9

\* C5: the scaler is fitted exactly once, on the full joined feature set and
\* before the split; every later step leaves its fitted parameters alone, and the
\* segment scoring and each loop iteration apply that same fitted scaler.
C5_ScalerFittedOnce ==
    [][/\ scaler' # scaler =>
              /\ pc = "scale" /\ scaler = Unfitted /\ ~Ran("split")
              /\ scaler'.fits = 1
              /\ scaler'.n = Len(data)
              /\ scaler'.mean = FitStats(Project(data)).mean
              /\ scaler'.var = FitStats(Project(data)).var
       /\ segment_features_scaled' # segment_features_scaled =>
              /\ scaler.fits = 1
              /\ segment_features_scaled' = TransformRows(scaler, Project(segment_data))
       /\ top_products' # top_products /\ top_products' # <<>> =>
              /\ scaler.fits = 1
              /\ segment_features_scaled_product'
                     = TransformRows(scaler, Project(segment_data_product'))]_vars

C5_Witness ==
    /\ pc = "done"
    /\ scaler.fits = 1
    /\ Len(top_products) = 3
    /\ \E f \in Range(features) : scaler.var[f].n > 0

\* the place of section p's first run in the log
FirstAt(p) == CHOOSE k \in 1..Len(log) : log[k] = p /\ \A j \in 1..(k - 1) : log[j] # p

Dumped == {k \in 1..Len(out) : out[k].name = "trained_model.pkl"}

\* C7: the classifier is fitted exactly once, on rows of the training subset
\* only, and the fitted model is written to trained_model.pkl before any scoring:
\* fit, then dump, then the first predict_proba; no later step refits or replaces
\* the model that the segment scoring and the loop use.
C7_FitDumpThenScore ==
    /\ model.fits <= 1
    /\ Ran("fit") =>
           /\ model.fits = 1
           /\ Range(model.fit_rows) = Range(split.train)
           /\ Range(model.fit_rows) \cap Range(split.test) = {}
    /\ Ran("dump") =>
           /\ Ran("fit") /\ FirstAt("fit") < FirstAt("dump")
           /\ Cardinality(Dumped) = 1
           /\ \A k \in Dumped : out[k].content = model
    /\ \A p \in {"score", "predict", "loop"} :
           Ran(p) => Ran("dump") /\ FirstAt("dump") < FirstAt(p)

C7_Witness ==
    /\ pc = "done"
    /\ clone_fits > 0
    /\ model.fits = 1
    /\ \A k \in Dumped : out[k].content = model

SevenPlots ==
    <<"plot_confusion_matrix", "plot_roc_curve", "plot_precision_recall_curve",
      "plot_feature_importance", "plot_feature_histograms", "plot_correlation_matrix",
      "plot_learning_curve">>

CompleteRun ==
    <<"load", "merge", "features", "prepare", "scale", "split", "fit", "dump",
      "select", "score", "rank", "save", "predict">>
    \o SevenPlots \o <<"loop_init", "loop", "loop", "loop", "export">>

IsPlot(p) == p \in Range(SevenPlots)

IsResultFile(f) == f.name # "trained_model.pkl"

\* C9: the program is a linear run executed once: the steps happen in the order
\* load, join, feature engineering, scale, split, fit, score, rank, plot, export,
\* none repeated except the three loop iterations; a complete run renders exactly
\* the seven plots (confusion matrix, ROC, precision-recall, feature importance,
\* histograms, correlation matrix, learning curve, in that order) and writes
\* exactly two result files, top_customers.csv before the plots and results.xlsx
\* as the final step.
C9_LinearRun ==
    /\ Len(log) <= Len(CompleteRun)
    /\ log = SubSeq(CompleteRun, 1, Len(log))
    /\ pc = "done" =>
           /\ log = CompleteRun
           /\ SelectSeq(log, IsPlot) = SevenPlots
           /\ Column(SelectSeq(out, IsResultFile), "name")
                  = <<"top_customers.csv", "results.xlsx">>
           /\ FirstAt("save") < FirstAt("plot_confusion_matrix")
           /\ log[Len(log)] = "export"
           /\ out[Len(out)].name = "results.xlsx"

C9_Witness ==
    /\ pc = "done"
    /\ Len(SelectSeq(log, IsPlot)) = 7
    /\ Len(out) = 3

\* the joined rows whose customer_id is in the segment file
SegmentIndex ==
    {data[k].index : k \in {j \in 1..Len(data) :
        data[j].customer_id \in Range(Column(fs.segment, "customer_id"))}}

CsvWritten == {k \in 1..Len(out) : out[k].name = "top_customers.csv"}

\* the purchase_probability of the row of the segment table with index label ix
ProbaAt(rows, ix) == (CHOOSE r \in Range(rows) : r.index = ix).purchase_probability

\* C1: the customer list written to top_customers.csv consists of exactly
\* min(10, |S|) rows of the segment table S (the joined rows whose customer_id is
\* in the segment file), in non-increasing order of purchase_probability, and
\* every segment row left out has a purchase_probability less than or equal to
\* that of every row in the list.
C1_TopTenOfSegment ==
    \A w \in CsvWritten :
        LET S == segment_data
            listed == {top_customers[k].index : k \in 1..Len(top_customers)}
        IN  /\ {S[k].index : k \in 1..Len(S)} = SegmentIndex
            /\ Len(S) = Cardinality(SegmentIndex)
            /\ Len(top_customers) = (IF Len(S) < 10 THEN Len(S) ELSE 10)
            /\ out[w].content = Column(top_customers, "customer_id")
            /\ Cardinality(listed) = Len(top_customers)
            /\ \A k \in 1..Len(top_customers) :
                   \E r \in Range(S) : /\ r.index = top_customers[k].index
                                       /\ r.customer_id = top_customers[k].customer_id
            /\ \A k \in 1..(Len(top_customers) - 1) :
                   ProbaAt(S, top_customers[k].index) >= ProbaAt(S, top_customers[k + 1].index)
            /\ \A r \in Range(S) :
                   r.index \notin listed =>
                       \A ix \in listed : r.purchase_probability <= ProbaAt(S, ix)

C1_Witness ==
    /\ CsvWritten # {}
    /\ Len(segment_data) > 10
    /\ Len(top_customers) = 10
    /\ \E r \in Range(segment_data) :
           /\ r.index \notin {top_customers[k].index : k \in 1..Len(top_customers)}
           /\ r.purchase_probability < ProbaAt(segment_data, top_customers[1].index)

\* the k-th largest purchase_probability of rows
KthLargest(rows, k) ==
    CHOOSE v \in {r.purchase_probability : r \in Range(rows)} :
        /\ Cardinality({j \in 1..Len(rows) : rows[j].purchase_probability > v}) < k
        /\ Cardinality({j \in 1..Len(rows) : rows[j].purchase_probability >= v}) >= k

\* ids lists, best first, the customers of Len(ids) distinct rows of highest
\* purchase_probability: the k-th id is the id of a row with the k-th largest
\* probability, and no row is counted twice
IsTopOf(ids, rows) ==
    \A k \in 1..Len(ids) :
        LET v == KthLargest(rows, k)
        IN  Cardinality({j \in 1..Len(ids) : ids[j] = ids[k] /\ KthLargest(rows, j) = v})
                <= Cardinality({j \in 1..Len(rows) :
                       rows[j].customer_id = ids[k] /\ rows[j].purchase_probability = v})

Xlsx == {k \in 1..Len(out) : out[k].name = "results.xlsx"}

\* C2: after the product loop the table written to results.xlsx has exactly one
\* row per entry of product_ids, in the order '12345', '67890', '54321', and each
\* row's top_customers holds exactly min(3, |S|) customer ids, those of the
\* highest-purchase_probability rows of the segment table S for that product, in
\* non-increasing probability order.
C2_TopThreePerProduct ==
    \A w \in Xlsx :
        LET S == segment_data_product
            table == out[w].content
        IN  /\ Column(table, "product_id") = <<"12345", "67890", "54321">>
            /\ {S[k].index : k \in 1..Len(S)} = SegmentIndex
            /\ \A k \in 1..Len(table) :
                   /\ Len(table[k].top_customers) = (IF Len(S) < 3 THEN Len(S) ELSE 3)
                   /\ IsTopOf(table[k].top_customers, S)

C2_Witness ==
    /\ Xlsx # {}
    /\ Len(segment_data_product) > 3
    /\ \E r \in Range(segment_data_product) :
           r.purchase_probability < KthLargest(segment_data_product, 3)

\* C10: every loop iteration scores the same rows as the top-10 step (the joined
\* rows whose customer_id is in the segment file), so the top_customers lists of
\* all three product_ids are identical to each other and equal to the first three
\* entries of the list written to top_customers.csv.
C10_SameListForEveryProduct ==
    /\ \A k \in 1..Len(top_products) :
           /\ Column(segment_data_product, "index") = Column(segment_data, "index")
           /\ {segment_data_product[j].index : j \in 1..Len(segment_data_product)}
                  = SegmentIndex
           /\ Column(segment_data_product, "purchase_probability")
                  = Column(segment_data, "purchase_probability")
           /\ \A w \in CsvWritten :
                  top_products[k].top_customers = SubSeq(out[w].content, 1,
                      IF Len(out[w].content) < 3 THEN Len(out[w].content) ELSE 3)
           /\ top_products[k].top_customers = top_products[1].top_customers
    /\ pc = "done" => Len(top_products) = 3 /\ CsvWritten # {}

C10_Witness ==
    /\ pc = "done"
    /\ Len(data) > Len(segment_data)
    /\ Len(segment_data) > 3
    /\ top_products[3].top_customers = top_products[1].top_customers

\* C3: the probability that ranks customers for a product is the likelihood of
\* buying that product: product_id is an input of the score computed in its loop
\* iteration, so it is among the columns the model is given or among the columns
\* of the frame that is scored.
C3_ProductIsScoreInput ==
    top_products # <<>> =>
        /\ segment_features_scaled_product # <<>>
        /\ \A k \in 1..Len(segment_features_scaled_product) :
               \/ "product_id" \in DOMAIN segment_features_scaled_product[k]
               \/ "product_id" \in DOMAIN segment_data_product[k]

====
